---- MODULE Spec2Model ----
(***************************************************************************)
(* Model of src/src/lib.rs: three shapes of one record (version_1,         *)
(* version_2_a, version_2_b) sharing one wire layout                       *)
(*     u8 version | Option<[u8; 4]> bytes | Option<Vec<String>> names      *)
(* with their hand-written or derived SCALE encoders and decoders and      *)
(* their PartialEq implementations.                                        *)
(*                                                                         *)
(* Spec   : a producer constructs a record, which is then encoded, the     *)
(*          buffer possibly cut short, decoded by any of the three         *)
(*          decoders, re-encoded, decoded again ...                        *)
(* SpecEq : two records of one shape are compared with that shape's eq.    *)
(***************************************************************************)
EXTENDS Naturals, Sequences, FiniteSets

VARIABLES orig, src, val, buf, cut, clean, rest, outcome, path, pc, lhs, rhs, cmp

vars == <<orig, src, val, buf, cut, clean, rest, outcome, path, pc, lhs, rhs, cmp>>

(***************************************************************************)
(* Bounds and input sets                                                   *)
(***************************************************************************)
\* longest Vec<String> a producer constructs
MaxNames == 2
\* number of decodes applied to one original record
MaxHops == 2
\* [u8; 4]
ArrayLen == 4

\* version tags: the two the tests use and one no shape was written for
Versions == {1, 2, 5}
\* fixed arrays: the tests' [55; 4], and two whose first byte reads as an
\* Option discriminant
ByteArrays ==
    { [i \in 1..ArrayLen |-> 55],
      [i \in 1..ArrayLen |-> 0],
      [i \in 1..ArrayLen |-> IF i = 1 THEN 1 ELSE 0] }
\* strings as their UTF-8 bytes (ASCII, so every byte string is valid UTF-8):
\* "", "h", "w", "hi"
Strings == { <<>>, <<104>>, <<119>>, <<104, 105>> }

RECURSIVE SeqsUpTo(_, _)
SeqsUpTo(S, n) ==
    IF n = 0 THEN { <<>> }
    ELSE LET shorter == SeqsUpTo(S, n - 1)
         IN  shorter \cup { Append(s, x) : s \in { t \in shorter : Len(t) = n - 1 }, x \in S }
NameVecs == SeqsUpTo(Strings, MaxNames)

(***************************************************************************)
(* Option<T>: None is the empty sequence, Some(x) the one-element sequence *)
(***************************************************************************)
None == <<>>
Some(x) == <<x>>
is_some(o) == Len(o) = 1
unwrap(o) == o[1]

(***************************************************************************)
(* The three record shapes                                                 *)
(***************************************************************************)
V1Struct(v, b, n) == [shape |-> "v1", version |-> v, bytes |-> b, names |-> n]
V2aStruct(v, b) == [shape |-> "v2a", version |-> v, bytes |-> b]
V2bStruct(v, n) == [shape |-> "v2b", version |-> v, names |-> n]

OptArrays == { None } \cup { Some(b) : b \in ByteArrays }
OptNames == { None } \cup { Some(n) : n \in NameVecs }
V1Values == { V1Struct(v, b, n) : v \in Versions, b \in OptArrays, n \in OptNames }
V2aValues == { V2aStruct(v, b) : v \in Versions, b \in ByteArrays }
V2bValues == { V2bStruct(v, n) : v \in Versions, n \in NameVecs }
Values == V1Values \cup V2aValues \cup V2bValues
NoValue == [shape |-> "none"]

(***************************************************************************)
(* Primitive codec (parity_scale_codec) as the source uses it              *)
(***************************************************************************)
Ok(x, r) == [tag |-> "ok", v |-> <<x>>, rest |-> r]
Err == [tag |-> "err", v |-> <<>>, rest |-> <<>>]
Panic == [tag |-> "panic", v |-> <<>>, rest |-> <<>>]
Drop(in, k) == SubSeq(in, k + 1, Len(in))

\* u8: one byte
u8_encode(v) == <<v>>
u8_decode(in) == IF Len(in) = 0 THEN Err ELSE Ok(in[1], Drop(in, 1))

\* [u8; 4]: the four bytes, no prefix
array_encode(a) == a
array_decode(in) ==
    IF Len(in) < ArrayLen THEN Err
    ELSE Ok(SubSeq(in, 1, ArrayLen), Drop(in, ArrayLen))

\* Compact<u32> length prefix. Lengths below 64 take one byte, n * 4 (mode
\* bits 00). The other modes carry lengths of 64 and more: no buffer here is
\* long enough to hold that many elements, so reading them ends in Err.
compact_encode(n) == <<n * 4>>
compact_decode(in) ==
    IF Len(in) = 0 THEN Err
    ELSE IF in[1] % 4 = 0 THEN Ok(in[1] \div 4, Drop(in, 1))
    ELSE Err

\* String: compact length, then the UTF-8 bytes
string_encode(s) == compact_encode(Len(s)) \o s
string_decode(in) ==
    LET n == compact_decode(in)
    IN  IF n.tag # "ok" THEN Err
        ELSE IF Len(n.rest) < n.v[1] THEN Err
        ELSE Ok(SubSeq(n.rest, 1, n.v[1]), Drop(n.rest, n.v[1]))

\* Vec<String>: compact length, then the elements in order
RECURSIVE strings_encode(_)
strings_encode(v) ==
    IF Len(v) = 0 THEN <<>> ELSE string_encode(Head(v)) \o strings_encode(Tail(v))
vec_encode(v) == compact_encode(Len(v)) \o strings_encode(v)

RECURSIVE strings_decode(_, _, _)
strings_decode(n, in, acc) ==
    IF n = 0 THEN Ok(acc, in)
    ELSE LET s == string_decode(in)
         IN  IF s.tag # "ok" THEN Err
             ELSE strings_decode(n - 1, s.rest, Append(acc, s.v[1]))
vec_decode(in) ==
    LET n == compact_decode(in)
    IN  IF n.tag # "ok" THEN Err ELSE strings_decode(n.v[1], n.rest, <<>>)

\* Option<T>: discriminant 0 for None, 1 then the payload for Some
option_array_encode(o) ==
    IF is_some(o) THEN <<1>> \o array_encode(unwrap(o)) ELSE <<0>>
option_names_encode(o) ==
    IF is_some(o) THEN <<1>> \o vec_encode(unwrap(o)) ELSE <<0>>
option_array_decode(in) ==
    IF Len(in) = 0 THEN Err
    ELSE IF in[1] = 0 THEN Ok(None, Drop(in, 1))
    ELSE IF in[1] = 1 THEN
        LET p == array_decode(Drop(in, 1))
        IN  IF p.tag # "ok" THEN Err ELSE Ok(Some(p.v[1]), p.rest)
    ELSE Err
option_names_decode(in) ==
    IF Len(in) = 0 THEN Err
    ELSE IF in[1] = 0 THEN Ok(None, Drop(in, 1))
    ELSE IF in[1] = 1 THEN
        LET p == vec_decode(Drop(in, 1))
        IN  IF p.tag # "ok" THEN Err ELSE Ok(Some(p.v[1]), p.rest)
    ELSE Err

(***************************************************************************)
(* version_1: derived Encode/Decode, hand-written PartialEq                *)
(***************************************************************************)
\* seeded fault: an absent field is omitted instead of written as None
version_1_encode_omitting(s) ==
    u8_encode(s.version)
        \o (IF is_some(s.bytes) THEN option_array_encode(s.bytes) ELSE <<>>)
        \o (IF is_some(s.names) THEN option_names_encode(s.names) ELSE <<>>)

version_1_encode(s) ==
    u8_encode(s.version) \o option_array_encode(s.bytes) \o option_names_encode(s.names)

version_1_decode(in) ==
    LET version == u8_decode(in)
    IN  IF version.tag # "ok" THEN Err
        ELSE LET bytes == option_array_decode(version.rest)
             IN  IF bytes.tag # "ok" THEN Err
                 ELSE LET names == option_names_decode(bytes.rest)
                      IN  IF names.tag # "ok" THEN Err
                          ELSE Ok(V1Struct(version.v[1], bytes.v[1], names.v[1]), names.rest)

\* seeded fault: only self's presence decides whether a field is compared
version_1_eq_onesided(self, other) ==
    LET eq0 == TRUE
        eq1 == IF is_some(self.bytes) THEN eq0 /\ (self.bytes = other.bytes) ELSE eq0
        eq2 == IF is_some(self.names) THEN eq1 /\ (self.names = other.names) ELSE eq1
    IN  eq2

\* seeded fault: the derived, structural PartialEq
version_1_eq_strict(self, other) ==
    /\ self.version = other.version
    /\ self.bytes = other.bytes
    /\ self.names = other.names

version_1_eq(self, other) ==
    LET eq0 == TRUE
        eq1 == IF is_some(self.bytes) /\ is_some(other.bytes)
               THEN eq0 /\ (self.bytes = other.bytes)
               ELSE eq0
        eq2 == IF is_some(self.names) /\ is_some(other.names)
               THEN eq1 /\ (self.names = other.names)
               ELSE eq1
    IN  eq2

(***************************************************************************)
(* version_2_a: knows bytes, has removed names                             *)
(***************************************************************************)
\* seeded fault: the None for the removed names field is not written
version_2_a_encode_to_bare(s) ==
    u8_encode(s.version) \o option_array_encode(Some(s.bytes))

version_2_a_encode_to(s) ==
    u8_encode(s.version) \o option_array_encode(Some(s.bytes)) \o option_names_encode(None)

\* seeded fault: bytes is read as [u8; 4], not as Option<[u8; 4]>
version_2_a_decode_raw(in) ==
    LET version == u8_decode(in)
    IN  IF version.tag # "ok" THEN Err
        ELSE LET bytes == array_decode(version.rest)
             IN  IF bytes.tag # "ok" THEN Err
                 ELSE Ok(V2aStruct(version.v[1], bytes.v[1]), bytes.rest)

\* seeded fault: the decoder stamps its own version instead of the tag read
version_2_a_decode_stamped(in) ==
    LET version == u8_decode(in)
    IN  IF version.tag # "ok" THEN Err
        ELSE LET bytes == option_array_decode(version.rest)
             IN  IF bytes.tag # "ok" THEN Err
                 ELSE IF ~is_some(bytes.v[1]) THEN Panic
                 ELSE Ok(V2aStruct(2, unwrap(bytes.v[1])), bytes.rest)

\* seeded fault: unwrap_or_default() in place of unwrap()
version_2_a_decode_default(in) ==
    LET version == u8_decode(in)
    IN  IF version.tag # "ok" THEN Err
        ELSE LET bytes == option_array_decode(version.rest)
             IN  IF bytes.tag # "ok" THEN Err
                 ELSE IF ~is_some(bytes.v[1])
                      THEN Ok(V2aStruct(version.v[1], [i \in 1..ArrayLen |-> 0]), bytes.rest)
                 ELSE Ok(V2aStruct(version.v[1], unwrap(bytes.v[1])), bytes.rest)

version_2_a_decode(in) ==
    LET version == u8_decode(in)
    IN  IF version.tag # "ok" THEN Err
        ELSE LET bytes == option_array_decode(version.rest)
             IN  IF bytes.tag # "ok" THEN Err
                 ELSE IF ~is_some(bytes.v[1]) THEN Panic
                 ELSE Ok(V2aStruct(version.v[1], unwrap(bytes.v[1])), bytes.rest)

version_2_a_eq(self, other) == self.bytes = other.bytes

(***************************************************************************)
(* version_2_b: knows names, has removed bytes                             *)
(***************************************************************************)
\* seeded fault: the None for the removed bytes field is not written
version_2_b_encode_to_bare(s) ==
    u8_encode(s.version) \o option_names_encode(Some(s.names))

\* seeded fault: names is written without its Some wrapper
version_2_b_encode_to_unwrapped(s) ==
    u8_encode(s.version) \o option_array_encode(None) \o vec_encode(s.names)

version_2_b_encode_to(s) ==
    u8_encode(s.version) \o option_array_encode(None) \o option_names_encode(Some(s.names))

\* seeded fault: the removed bytes field is not skipped
version_2_b_decode_noskip(in) ==
    LET version == u8_decode(in)
    IN  IF version.tag # "ok" THEN Err
        ELSE LET names == option_names_decode(version.rest)
             IN  IF names.tag # "ok" THEN Err
                 ELSE IF ~is_some(names.v[1]) THEN Panic
                 ELSE Ok(V2bStruct(version.v[1], unwrap(names.v[1])), names.rest)

version_2_b_decode(in) ==
    LET version == u8_decode(in)
    IN  IF version.tag # "ok" THEN Err
        ELSE LET skipped == option_array_decode(version.rest)
             IN  IF skipped.tag # "ok" THEN Err
                 ELSE LET names == option_names_decode(skipped.rest)
                      IN  IF names.tag # "ok" THEN Err
                          ELSE IF ~is_some(names.v[1]) THEN Panic
                          ELSE Ok(V2bStruct(version.v[1], unwrap(names.v[1])), names.rest)

version_2_b_eq(self, other) == self.names = other.names

(***************************************************************************)
(* Spec: the encode / decode pipeline                                      *)
(***************************************************************************)
NoCmp == [ab |-> FALSE, ba |-> FALSE, aa |-> FALSE, bb |-> FALSE]

Init ==
    /\ orig \in Values
    /\ src = NoValue
    /\ val = orig
    /\ buf = <<>>
    /\ cut = 0
    /\ clean = TRUE
    /\ rest = <<>>
    /\ outcome = "none"
    /\ path = <<orig.shape>>
    /\ pc = "value"
    /\ lhs = NoValue
    /\ rhs = NoValue
    /\ cmp = NoCmp

\* x.encode(): a fresh buffer holding the record's encoding
Encoded(bytes) ==
    /\ pc = "value"
    /\ Len(path) <= MaxHops
    /\ buf' = bytes
    /\ src' = val
    /\ cut' = 0
    /\ pc' = "bytes"
    /\ UNCHANGED <<orig, val, clean, rest, outcome, path, lhs, rhs, cmp>>

Encode_v1 == val.shape = "v1" /\ Encoded(version_1_encode(val))
Encode_v2a == val.shape = "v2a" /\ Encoded(version_2_a_encode_to(val))
Encode_v2b == val.shape = "v2b" /\ Encoded(version_2_b_encode_to(val))

\* the input reaches the reader one byte short of what the writer emitted
Truncate ==
    /\ pc = "bytes"
    /\ Len(buf) > 0
    /\ buf' = SubSeq(buf, 1, Len(buf) - 1)
    /\ cut' = cut + 1
    /\ clean' = FALSE
    /\ UNCHANGED <<orig, src, val, rest, outcome, path, pc, lhs, rhs, cmp>>

\* Struct::decode(&mut &*buf)
Decoded(shape, r) ==
    /\ pc = "bytes"
    /\ outcome' = r.tag
    /\ val' = IF r.tag = "ok" THEN r.v[1] ELSE NoValue
    /\ rest' = IF r.tag = "ok" THEN r.rest ELSE <<>>
    /\ path' = Append(path, shape)
    /\ pc' = IF r.tag = "ok" THEN "value" ELSE "failed"
    /\ UNCHANGED <<orig, src, buf, cut, clean, lhs, rhs, cmp>>

Decode_v1 == Decoded("v1", version_1_decode(buf))
Decode_v2a == Decoded("v2a", version_2_a_decode(buf))
Decode_v2b == Decoded("v2b", version_2_b_decode(buf))

Next ==
    \/ Encode_v1
    \/ Encode_v2a
    \/ Encode_v2b
    \/ Truncate
    \/ Decode_v1
    \/ Decode_v2a
    \/ Decode_v2b

Spec == Init /\ [][Next]_vars

(***************************************************************************)
(* SpecEq: the PartialEq implementations on two records of one shape       *)
(***************************************************************************)
InitEq ==
    /\ \E S \in {V1Values, V2aValues, V2bValues} : lhs \in S /\ rhs \in S
    /\ cmp = NoCmp
    /\ pc = "compare"
    /\ orig = NoValue
    /\ src = NoValue
    /\ val = NoValue
    /\ buf = <<>>
    /\ cut = 0
    /\ clean = TRUE
    /\ rest = <<>>
    /\ outcome = "none"
    /\ path = <<>>

Compared(shape, ab, ba, aa, bb) ==
    /\ pc = "compare"
    /\ lhs.shape = shape
    /\ cmp' = [ab |-> ab, ba |-> ba, aa |-> aa, bb |-> bb]
    /\ pc' = "compared"
    /\ UNCHANGED <<lhs, rhs, orig, src, val, buf, cut, clean, rest, outcome, path>>

Eq_v1 ==
    Compared("v1", version_1_eq(lhs, rhs), version_1_eq(rhs, lhs),
             version_1_eq(lhs, lhs), version_1_eq(rhs, rhs))
Eq_v2a ==
    Compared("v2a", version_2_a_eq(lhs, rhs), version_2_a_eq(rhs, lhs),
             version_2_a_eq(lhs, lhs), version_2_a_eq(rhs, rhs))
Eq_v2b ==
    Compared("v2b", version_2_b_eq(lhs, rhs), version_2_b_eq(rhs, lhs),
             version_2_b_eq(lhs, lhs), version_2_b_eq(rhs, rhs))

NextEq ==
    \/ Eq_v1
    \/ Eq_v2a
    \/ Eq_v2b

SpecEq == InitEq /\ [][NextEq]_vars

(***************************************************************************)
(* Properties                                                              *)
(***************************************************************************)
Last(s) == s[Len(s)]
\* a decode has just returned: src is the record the writer encoded, buf the
\* input handed to the decoder, cut the number of bytes it was short of the
\* writer's output, val / rest / outcome what the decoder left
JustDecoded == pc \in {"value", "failed"} /\ outcome # "none"
Hop(writer, reader) ==
    JustDecoded /\ cut = 0 /\ src.shape = writer /\ Last(path) = reader
\* the shape's own PartialEq
shape_eq(a, b) ==
    CASE a.shape = "v1" -> version_1_eq(a, b)
      [] a.shape = "v2a" -> version_2_a_eq(a, b)
      [] a.shape = "v2b" -> version_2_b_eq(a, b)
      [] OTHER -> FALSE
\* the names option a writer emitted for record s
names_written(s) ==
    CASE s.shape = "v1" -> s.names
      [] s.shape = "v2a" -> None
      [] OTHER -> Some(s.names)

\* C1: self-round-trip. Decoding encode(x) with the decoder of x's own shape
\* succeeds and returns a value equal to x under that shape's equality.
C1_SelfRoundTrip ==
    (JustDecoded /\ cut = 0 /\ Last(path) = src.shape)
        => /\ outcome = "ok"
           /\ val.shape = src.shape
           /\ shape_eq(src, val)
           /\ shape_eq(val, src)
C1_Witness ==
    /\ Hop("v2b", "v2b")
    /\ outcome = "ok"
    /\ Len(src.names) = 2
    /\ val = src

\* C2: backward compatibility. A version_1 record with bytes present decodes
\* as version_2_a with the same bytes; one with names present decodes as
\* version_2_b with the same names.
C2_Backward ==
    /\ (Hop("v1", "v2a") /\ is_some(src.bytes))
           => (outcome = "ok" /\ val.shape = "v2a" /\ val.bytes = unwrap(src.bytes))
    /\ (Hop("v1", "v2b") /\ is_some(src.names))
           => (outcome = "ok" /\ val.shape = "v2b" /\ val.names = unwrap(src.names))
C2_Witness ==
    /\ Hop("v1", "v2b")
    /\ is_some(src.bytes)
    /\ is_some(src.names)
    /\ Len(unwrap(src.names)) = 2
    /\ val.names = unwrap(src.names)

\* C3: forward compatibility. A version_2_a record decodes as version_1 with
\* bytes = Some(y.bytes), names = None; a version_2_b record with bytes = None,
\* names = Some(y.names); the result equals, under version_1's equality, every
\* version_1 value carrying the same content in the field y has.
C3_Forward ==
    /\ Hop("v2a", "v1")
           => /\ outcome = "ok"
              /\ val.shape = "v1"
              /\ val.bytes = Some(src.bytes)
              /\ val.names = None
              /\ \A z \in V1Values :
                     z.bytes = Some(src.bytes) => version_1_eq(z, val) /\ version_1_eq(val, z)
    /\ Hop("v2b", "v1")
           => /\ outcome = "ok"
              /\ val.shape = "v1"
              /\ val.bytes = None
              /\ val.names = Some(src.names)
              /\ \A z \in V1Values :
                     z.names = Some(src.names) => version_1_eq(z, val) /\ version_1_eq(val, z)
C3_Witness ==
    /\ Hop("v2a", "v1")
    /\ src.version = 2
    /\ val = V1Struct(2, Some(src.bytes), None)

\* C4: re-encoding stability. version_2 record -> bytes -> version_1 record
\* -> bytes -> the original version_2 decoder: every step succeeds and the
\* result equals the original under that shape's equality.
C4_Reencoding ==
    (JustDecoded /\ clean /\ orig.shape \in {"v2a", "v2b"} /\ Len(path) >= 2 /\ path[2] = "v1")
        => /\ Len(path) = 2 => outcome = "ok"
           /\ (Len(path) = 3 /\ path[3] = orig.shape)
                  => /\ outcome = "ok"
                     /\ val.shape = orig.shape
                     /\ shape_eq(orig, val)
                     /\ shape_eq(val, orig)
C4_Witness ==
    /\ JustDecoded
    /\ clean
    /\ path = <<"v2b", "v1", "v2b">>
    /\ outcome = "ok"
    /\ Len(orig.names) = 2
    /\ val = orig

\* C5 as stated: a version-1 record (tag 1) decoded by a version-2 decoder
\* yields a record whose version field is 2, {version: 2, bytes} from
\* version_2_a and {version: 2, names} from version_2_b.
C5_VersionIsTwo ==
    /\ (Hop("v1", "v2a") /\ src.version = 1 /\ is_some(src.bytes))
           => val = V2aStruct(2, unwrap(src.bytes))
    /\ (Hop("v1", "v2b") /\ src.version = 1 /\ is_some(src.names))
           => val = V2bStruct(2, unwrap(src.names))
\* C5 amended: the decoded record carries the tag read from the wire, 1; it
\* matches the version-2 record {version: 2, ...} only under the shape's
\* equality, which does not look at the version field.
C5_VersionIsRead ==
    /\ (Hop("v1", "v2a") /\ src.version = 1 /\ is_some(src.bytes))
           => /\ val = V2aStruct(1, unwrap(src.bytes))
              /\ version_2_a_eq(V2aStruct(2, unwrap(src.bytes)), val)
    /\ (Hop("v1", "v2b") /\ src.version = 1 /\ is_some(src.names))
           => /\ val = V2bStruct(1, unwrap(src.names))
              /\ version_2_b_eq(V2bStruct(2, unwrap(src.names)), val)
C5_Witness ==
    /\ Hop("v1", "v2a")
    /\ src = V1Struct(1, Some([i \in 1..ArrayLen |-> 55]), Some(<<<<104>>, <<119>>>>))
    /\ val.version = 1
    /\ val.bytes = [i \in 1..ArrayLen |-> 55]

\* C6: partial equality is reflexive and symmetric on each shape.
C6_ReflexiveSymmetric ==
    pc = "compared" => (cmp.aa /\ cmp.bb /\ (cmp.ab <=> cmp.ba))
C6_Witness ==
    /\ pc = "compared"
    /\ lhs.shape = "v1"
    /\ is_some(lhs.bytes) /\ ~is_some(rhs.bytes)
    /\ is_some(lhs.names) /\ is_some(rhs.names) /\ lhs.names # rhs.names
    /\ ~cmp.ab /\ ~cmp.ba

\* the decoder has read a None discriminant for the field it unwraps
reads_nothing ==
    LET version == u8_decode(buf)
        bytes == IF version.tag = "ok" THEN option_array_decode(version.rest) ELSE Err
    IN  /\ JustDecoded
        /\ bytes.tag = "ok"
        /\ \/ Last(path) = "v2a" /\ bytes.v[1] = None
           \/ Last(path) = "v2b" /\ Len(bytes.rest) > 0 /\ bytes.rest[1] = 0
\* C7 as stated: on a None discriminant for bytes (version_2_a) or names
\* (version_2_b), decode returns a decode error, Err(..).
C7_AbsenceIsErr ==
    reads_nothing => (outcome = "err" /\ val = NoValue)
\* C7 amended: decode panics at the unwrap; it returns neither Err(..) nor a
\* record, and substitutes no default.
C7_AbsenceIsPanic ==
    reads_nothing => (outcome = "panic" /\ val = NoValue /\ pc = "failed")
C7_Witness ==
    /\ reads_nothing
    /\ Hop("v2b", "v2a")
    /\ outcome = "panic"

\* C8 as stated: a successful decode of exactly what a writer emitted leaves
\* no unconsumed byte.
C8_NothingLeft ==
    (JustDecoded /\ cut = 0 /\ outcome = "ok") => rest = <<>>
\* C8 amended: version_1 and version_2_b consume the whole buffer;
\* version_2_a stops after bytes and leaves exactly the writer's names option
\* (at least its discriminant byte) unconsumed.
C8_LeftByShape ==
    (JustDecoded /\ cut = 0 /\ outcome = "ok")
        => /\ Last(path) \in {"v1", "v2b"} => rest = <<>>
           /\ Last(path) = "v2a"
                  => /\ rest = option_names_encode(names_written(src))
                     /\ Len(rest) >= 1
                     /\ Len(buf) = 1 + (1 + ArrayLen) + Len(rest)
C8_Witness ==
    /\ Hop("v1", "v2a")
    /\ outcome = "ok"
    /\ is_some(src.names)
    /\ Len(unwrap(src.names)) = 2
    /\ Len(rest) > 1

\* C9: defensive encoding. What a version-2 writer emits is byte for byte the
\* version_1 encoding of the record with the removed field None and the kept
\* field Some; the version tag is the first byte of every encoding.
C9_Defensive ==
    (pc = "bytes" /\ cut = 0)
        => /\ buf[1] = src.version
           /\ src.shape = "v2a"
                  => buf = version_1_encode(V1Struct(src.version, Some(src.bytes), None))
           /\ src.shape = "v2b"
                  => buf = version_1_encode(V1Struct(src.version, None, Some(src.names)))
C9_Witness ==
    /\ pc = "bytes"
    /\ cut = 0
    /\ src.shape = "v2b"
    /\ Len(src.names) = 2
    /\ buf[2] = 0
    /\ buf[3] = 1

\* a field decides nothing when absent in either operand, equality of
\* contents when present in both
bytes_agree(a, b) == ~is_some(a.bytes) \/ ~is_some(b.bytes) \/ unwrap(a.bytes) = unwrap(b.bytes)
names_agree(a, b) == ~is_some(a.names) \/ ~is_some(b.names) \/ unwrap(a.names) = unwrap(b.names)
\* C10: version_1's equality is the conjunction of the two fields' agreement
\* and is independent of either operand's version tag.
C10_PartialEqRule ==
    (pc = "compared" /\ lhs.shape = "v1")
        => /\ cmp.ab <=> (bytes_agree(lhs, rhs) /\ names_agree(lhs, rhs))
           /\ \A v, w \in Versions :
                  version_1_eq([lhs EXCEPT !.version = v], [rhs EXCEPT !.version = w]) <=> cmp.ab
C10_Witness ==
    /\ pc = "compared"
    /\ lhs.shape = "v1"
    /\ lhs.version # rhs.version
    /\ ~is_some(lhs.bytes) /\ is_some(rhs.bytes)
    /\ is_some(lhs.names) /\ lhs.names = rhs.names
    /\ cmp.ab

====
